---- MODULE Spec2Model ----
(***************************************************************************)
(* signature-js: overloaded function signatures in javascript.             *)
(*                                                                         *)
(* A model of the closure created by signature(): the mappings array, the  *)
(* funcs array, and the three operations map, into and execute, together   *)
(* with the helpers reflect, compare_type, compare_type_array and match.   *)
(*                                                                         *)
(* Strings are modelled as sequences of tokens. A token is a word (a run   *)
(* of letters such as "string"), the union separator "|" or one blank " ". *)
(* The words used are prefix-free, so two token sequences are equal        *)
(* exactly when the strings they spell are equal.                          *)
(***************************************************************************)
EXTENDS Naturals, Sequences, FiniteSets, TLC

VARIABLES mappings, funcs, last, cmp, wrappers, hist

vars == <<mappings, funcs, last, cmp, wrappers, hist>>

-----------------------------------------------------------------------------
(* Bounds of the model.                                                    *)

\* the largest number of entries the mappings array is allowed to reach
MaxMappings == 2
\* the largest number of arguments of a call of the signature
MaxArity == 2
\* the largest number of tokens of a type specifier drawn by the comparator
MaxSpecLen == 3
\* the largest number of functions into(fn) of signature.js is asked for
MaxWrappers == 2

-----------------------------------------------------------------------------
(* Javascript values. A value carries what the code inspects: whether it   *)
(* is the undefined or the null sentinel, the result of typeof, the        *)
(* constructors instanceof finds on its prototype chain, and (for an       *)
(* array) its elements.                                                    *)

JsValue(id, ty, chain, elems) ==
    [id |-> id, typeof |-> ty, chain |-> chain, elems |-> elems]

undefined == JsValue("undefined", "undefined", {}, <<>>)
null      == JsValue("null", "object", {}, <<>>)
vFunction == JsValue("function(){}", "function", {"Function", "Object"}, <<>>)
vString   == JsValue("hello", "string", {}, <<>>)
vNumber   == JsValue("1", "number", {}, <<>>)
vBoolean  == JsValue("true", "boolean", {}, <<>>)
vDate     == JsValue("new Date()", "object", {"Date", "Object"}, <<>>)
vObject   == JsValue("{}", "object", {"Object"}, <<>>)
vSymbol   == JsValue("Symbol()", "symbol", {}, <<>>)
vNothing  == JsValue("nothing", "string", {}, <<>>)

\* an array literal holding the given elements
JsArray(elems) == JsValue("[]", "object", {"Array", "Object"}, elems)

\* an object made with Object.create(null): nothing on its prototype chain
vBare == JsValue("Object.create(null)", "object", {}, <<>>)
\* a function whose prototype was set to Array.prototype
vFnArray == JsValue("setPrototypeOf(function(){}, Array.prototype)", "function",
                    {"Array", "Object"}, <<>>)
\* an object with both Array.prototype and Date.prototype on its chain
vArrayDate == JsValue("setPrototypeOf(Date.prototype, Array.prototype); new Date()",
                      "object", {"Array", "Date", "Object"}, <<>>)

\* the nine type ids of TypeId
TypeIds == {"undefined", "null", "function", "string", "number", "boolean",
            "date", "array", "object"}

\* reflect without the test for null, which typeof calls an object
reflect_noNull(obj) ==
    IF obj = undefined THEN "undefined"
    ELSE IF obj.typeof = "function" THEN "function"
    ELSE IF obj.typeof = "string" THEN "string"
    ELSE IF obj.typeof = "number" THEN "number"
    ELSE IF obj.typeof = "boolean" THEN "boolean"
    ELSE IF obj.typeof = "object" /\ "Array" \in obj.chain THEN "array"
    ELSE IF obj.typeof = "object" /\ "Date" \in obj.chain THEN "date"
    ELSE "object"

\* reflect(obj): the simple typename of a value
reflect(obj) ==
    IF obj = undefined THEN "undefined"
    ELSE IF obj = null THEN "null"
    ELSE IF obj.typeof = "function" THEN "function"
    ELSE IF obj.typeof = "string" THEN "string"
    ELSE IF obj.typeof = "number" THEN "number"
    ELSE IF obj.typeof = "boolean" THEN "boolean"
    ELSE IF obj.typeof = "object" /\ "Array" \in obj.chain THEN "array"
    ELSE IF obj.typeof = "object" /\ "Date" \in obj.chain THEN "date"
    ELSE "object"

-----------------------------------------------------------------------------
(* String operations used by compare_type.                                 *)

\* the string spelled by one word
Str(w) == <<w>>

\* the index of the first separator of s, or 0
RECURSIVE FirstBar(_, _)
FirstBar(s, i) ==
    IF i > Len(s) THEN 0
    ELSE IF s[i] = "|" THEN i
    ELSE FirstBar(s, i + 1)

\* String.prototype.split("|"): the pieces between separators, empty ones kept
RECURSIVE split(_)
split(s) ==
    LET i == FirstBar(s, 1) IN
    IF i = 0 THEN <<s>>
    ELSE <<SubSeq(s, 1, i - 1)>> \o split(SubSeq(s, i + 1, Len(s)))

\* String.prototype.trim: leading and trailing blanks removed
RECURSIVE trimLeft(_)
trimLeft(s) ==
    IF s # <<>> /\ Head(s) = " " THEN trimLeft(Tail(s)) ELSE s

RECURSIVE trimRight(_)
trimRight(s) ==
    IF s # <<>> /\ s[Len(s)] = " " THEN trimRight(SubSeq(s, 1, Len(s) - 1)) ELSE s

trim(s) == trimRight(trimLeft(s))

NonEmpty(type) == Len(type) > 0

\* left.split("|").map(type => type.trim()).filter(type => type.length > 0)
parse(spec) ==
    LET pieces == split(spec)
        trimmed == [i \in DOMAIN pieces |-> trim(pieces[i])]
    IN SelectSeq(trimmed, NonEmpty)

\* a.indexOf(x) !== -1
contains(a, x) == \E i \in DOMAIN a : a[i] = x

-----------------------------------------------------------------------------
(* The comparators.                                                        *)

\* compare_type in which only the left union is searched for any
compare_type_leftAny(left, right) ==
    LET a == parse(left)
        b == parse(right)
    IN IF contains(a, Str("any")) THEN TRUE
       ELSE \E i \in DOMAIN a : \E j \in DOMAIN b : a[i] = b[j]

\* compare_type in which one index runs over both unions
compare_type_sameIndex(left, right) ==
    LET a == parse(left)
        b == parse(right)
    IN IF contains(a, Str("any")) THEN TRUE
       ELSE IF contains(b, Str("any")) THEN TRUE
       ELSE \E i \in DOMAIN a \cap DOMAIN b : a[i] = b[i]

\* compare_type(left, right): compares a union type to another union type
compare_type(left, right) ==
    LET a == parse(left)
        b == parse(right)
    IN IF contains(a, Str("any")) THEN TRUE
       ELSE IF contains(b, Str("any")) THEN TRUE
       ELSE \E i \in DOMAIN a : \E j \in DOMAIN b : a[i] = b[j]

\* compare_type_array without the length test, scanning the common positions
compare_type_array_noLength(left, right) ==
    \A i \in DOMAIN left \cap DOMAIN right : compare_type(left[i], right[i])

\* compare_type_array(left, right): compares the given type arrays
compare_type_array(left, right) ==
    IF Len(left) # Len(right) THEN FALSE
    ELSE \A i \in DOMAIN left : compare_type(left[i], right[i])

-----------------------------------------------------------------------------
(* Functions handed to the signature.                                      *)

\* map called with one argument: fn === undefined
fnUndefined == "undefined"
\* the mapping function map installs when fn is undefined
fnDefault == "(...args) => args"
\* a mapping function returning a fixed array (readme: method.map([], ...))
fnNothing == "() => [nothing, nothing]"
\* a mapping function whose body returns no value
fnNoReturn == "() => { }"

\* fn.call({}, args) in place of apply: the array arrives as one argument
applyFn_call(fn, args) ==
    IF fn = fnDefault THEN JsArray(<<JsArray(args)>>)
    ELSE IF fn = fnNothing THEN JsArray(<<vNothing, vNothing>>)
    ELSE undefined

\* fn.apply({}, args) for a mapping function
applyFn(fn, args) ==
    IF fn = fnDefault THEN JsArray(args)
    ELSE IF fn = fnNothing THEN JsArray(<<vNothing, vNothing>>)
    ELSE undefined

\* the value an implementation returns: opaque, determined by the
\* implementation and the argument list it was called with
NoResult == [by |-> "none", args |-> <<>>]
Self == [by |-> "self", args |-> <<>>]
callImpl(f, args) == [by |-> f, args |-> args]

\* the argument list Function.prototype.apply builds from its second argument
\* (ES5 15.3.4.3): none for undefined and null, a TypeError for any other
\* primitive, the indexed elements for an object
applyArgs(param) ==
    IF param = undefined \/ param = null THEN [err |-> "none", args |-> <<>>]
    ELSE IF param.typeof \notin {"object", "function"}
         THEN [err |-> "TypeError", args |-> <<>>]
    ELSE [err |-> "none", args |-> param.elems]

-----------------------------------------------------------------------------
(* The operations of the closure. Each takes the arrays it reads and       *)
(* returns the arrays it leaves, the error it throws ("none" when it       *)
(* returns), the value match handed back and the calls it made.            *)

ErrAmbiguous == "ambiguous signature mapping detected."
ErrSingle    == "signature can only have a single implementation."
ErrInvalid   == "invalid argument error."
ErrNoImpl    == "this signature has no implementation."

\* the index of the first mapping from i on whose types match, or 0
RECURSIVE firstMatch(_, _, _)
firstMatch(ms, types, i) ==
    IF i > Len(ms) THEN 0
    ELSE IF compare_type_array(types, ms[i].types) THEN i
    ELSE firstMatch(ms, types, i + 1)

\* match applying the mapping function of mappings[0] whatever mapping matched
match_firstFn(ms, args) ==
    LET types == [k \in DOMAIN args |-> Str(reflect(args[k]))]
        i == firstMatch(ms, types, 1)
    IN IF i = 0
       THEN [param |-> undefined, applied |-> <<>>]
       ELSE [param |-> applyFn(ms[1].fn, args),
             applied |-> <<[index |-> 1, fn |-> ms[1].fn, args |-> args]>>]

\* match(args): the output of the mapping function of the first mapping
\* matching the reflected arguments, undefined if none is found
match(ms, args) ==
    LET types == [k \in DOMAIN args |-> Str(reflect(args[k]))]
        i == firstMatch(ms, types, 1)
    IN IF i = 0
       THEN [param |-> undefined, applied |-> <<>>]
       ELSE [param |-> applyFn(ms[i].fn, args),
             applied |-> <<[index |-> i, fn |-> ms[i].fn, args |-> args]>>]

\* map comparing the type arrays for equality instead of overlap
map_exactCompare(ms, types, fn) ==
    LET f == IF fn = fnUndefined THEN fnDefault ELSE fn IN
    IF \E i \in DOMAIN ms : ms[i].types = types
    THEN [mappings |-> ms, err |-> ErrAmbiguous]
    ELSE [mappings |-> Append(ms, [types |-> types, fn |-> f]), err |-> "none"]

\* map whose scan starts at the second mapping
map_skipFirst(ms, types, fn) ==
    LET f == IF fn = fnUndefined THEN fnDefault ELSE fn IN
    IF \E i \in DOMAIN ms : i > 1 /\ compare_type_array(ms[i].types, types)
    THEN [mappings |-> ms, err |-> ErrAmbiguous]
    ELSE [mappings |-> Append(ms, [types |-> types, fn |-> f]), err |-> "none"]

\* map pushing the mapping before it scans for an ambiguity
map_pushBeforeCheck(ms, types, fn) ==
    LET f == IF fn = fnUndefined THEN fnDefault ELSE fn IN
    IF \E i \in DOMAIN ms : compare_type_array(ms[i].types, types)
    THEN [mappings |-> Append(ms, [types |-> types, fn |-> f]), err |-> ErrAmbiguous]
    ELSE [mappings |-> Append(ms, [types |-> types, fn |-> f]), err |-> "none"]

\* map putting the new mapping in front (unshift in place of push)
map_unshift(ms, types, fn) ==
    LET f == IF fn = fnUndefined THEN fnDefault ELSE fn IN
    IF \E i \in DOMAIN ms : compare_type_array(ms[i].types, types)
    THEN [mappings |-> ms, err |-> ErrAmbiguous]
    ELSE [mappings |-> <<[types |-> types, fn |-> f]>> \o ms, err |-> "none"]

\* map(types, fn): creates a mapping for this signature
map(ms, types, fn) ==
    LET f == IF fn = fnUndefined THEN fnDefault ELSE fn IN
    IF \E i \in DOMAIN ms : compare_type_array(ms[i].types, types)
    THEN [mappings |-> ms, err |-> ErrAmbiguous]
    ELSE [mappings |-> Append(ms, [types |-> types, fn |-> f]), err |-> "none"]

\* into replacing the implementation instead of refusing a second one
into_replace(fs, fn) == [funcs |-> <<fn>>, err |-> "none"]

\* into(fn): inserts an implementation for this signature
into(fs, fn) ==
    IF Len(fs) = 0 THEN [funcs |-> Append(fs, fn), err |-> "none"]
    ELSE [funcs |-> fs, err |-> ErrSingle]

\* execute testing for an implementation before it matches the arguments
execute_checkImplFirst(ms, fs, args) ==
    IF Len(fs) = 0
    THEN [err |-> ErrNoImpl, ret |-> NoResult, param |-> undefined,
          applied |-> <<>>, called |-> <<>>]
    ELSE LET m == match(ms, args) IN
         IF m.param = undefined
         THEN [err |-> ErrInvalid, ret |-> NoResult, param |-> m.param,
               applied |-> m.applied, called |-> <<>>]
         ELSE LET a == applyArgs(m.param) IN
              IF a.err # "none"
              THEN [err |-> a.err, ret |-> NoResult, param |-> m.param,
                    applied |-> m.applied, called |-> <<>>]
              ELSE [err |-> "none", ret |-> callImpl(fs[1], a.args), param |-> m.param,
                    applied |-> m.applied, called |-> <<[fn |-> fs[1], args |-> a.args]>>]

\* execute(...args): invokes this signature
execute(ms, fs, args) ==
    LET m == match(ms, args) IN
    IF m.param = undefined
    THEN [err |-> ErrInvalid, ret |-> NoResult, param |-> m.param,
          applied |-> m.applied, called |-> <<>>]
    ELSE IF Len(fs) = 0
    THEN [err |-> ErrNoImpl, ret |-> NoResult, param |-> m.param,
          applied |-> m.applied, called |-> <<>>]
    ELSE LET a == applyArgs(m.param) IN
         IF a.err # "none"
         THEN [err |-> a.err, ret |-> NoResult, param |-> m.param,
               applied |-> m.applied, called |-> <<>>]
         ELSE [err |-> "none", ret |-> callImpl(fs[1], a.args), param |-> m.param,
               applied |-> m.applied, called |-> <<[fn |-> fs[1], args |-> a.args]>>]

-----------------------------------------------------------------------------
(* Inputs.                                                                 *)

sString == Str("string")
sNumber == Str("number")
sAny == Str("any")
sStringOrNumber == <<"string", "|", "number">>
sNullOrUndefined == <<"null", " ", "|", " ", "undefined">>

sNull == Str("null")

\* the calls of map made: the type array and the mapping function of each
MapCall(types, fn) == [types |-> types, fn |-> fn]
MapCalls == { MapCall(<<>>, fnNothing),
              MapCall(<<sString, sString>>, fnUndefined),
              MapCall(<<sString>>, fnUndefined),
              MapCall(<<sAny>>, fnNothing),
              MapCall(<<sNumber>>, fnNoReturn),
              MapCall(<<sStringOrNumber>>, fnNothing),
              MapCall(<<sNullOrUndefined>>, fnNothing),
              MapCall(<<sNull>>, fnUndefined),
              MapCall(<<sNumber, sAny>>, fnUndefined) }

\* the implementations handed to into
Impls == {"F1", "F2"}

\* the values a caller passes
ArgValues == {vString, vNumber, null}

\* all sequences over S of length at most n
SeqsUpTo(S, n) == UNION { [1..k -> S] : k \in 0..n }

ArgLists == SeqsUpTo(ArgValues, MaxArity)

\* the tokens and specifiers drawn for the comparator
Tokens == {"any", "string", "number", "|", " "}
Specifiers == SeqsUpTo(Tokens, MaxSpecLen)
\* the specifiers of the readme's table of types, and its opt-in union
DocSpecifiers == {sAny, sNullOrUndefined} \cup {Str(t) : t \in TypeIds}
CmpPatterns == SeqsUpTo({sString, sNumber, sAny, sStringOrNumber}, MaxArity)

\* the values drawn for reflect, and the argument arrays match reflects
ReflectValues == {undefined, null, vFunction, vString, vNumber, vBoolean, vDate,
                  vObject, vSymbol, JsArray(<<>>), vBare, vFnArray, vArrayDate}
ReflectLists == SeqsUpTo(ReflectValues, MaxArity)

-----------------------------------------------------------------------------
(* The state machine of one signature.                                     *)

NoCmp == [kind |-> "none", left |-> <<>>, right |-> <<>>,
          lefts |-> <<>>, rights |-> <<>>, done |-> FALSE, result |-> FALSE,
          args |-> <<>>, types |-> <<>>, maps |-> <<>>,
          err |-> "none", out |-> NoResult, applied |-> <<>>]

NoCall == [op |-> "new", types |-> <<>>, fn |-> "none", args |-> <<>>,
           err |-> "none", ret |-> NoResult, param |-> undefined,
           applied |-> <<>>, called |-> <<>>, via |-> 0]

\* the history of a signature: the file it was built from, the mappings
\* registered so far in order, and the number of mappings there were when
\* an implementation was first given and when a call first found no mapping
NoHist == [variant |-> "none", regs |-> <<>>, boundAt |-> {}, failedAt |-> {}]

Init ==
    /\ mappings = <<>>
    /\ funcs = <<>>
    /\ wrappers = <<>>
    /\ hist = NoHist
    /\ last = NoCall
    /\ cmp = NoCmp

Map ==
    \E c \in MapCalls :
        LET r == map(mappings, c.types, c.fn) IN
        /\ Len(r.mappings) <= MaxMappings
        /\ mappings' = r.mappings
        /\ last' = [NoCall EXCEPT !.op = "map", !.types = c.types, !.fn = c.fn,
                                  !.err = r.err,
                                  !.ret = IF r.err = "none" THEN Self ELSE NoResult]
        /\ UNCHANGED <<funcs, cmp, wrappers, hist>>

Into ==
    \E fn \in Impls :
        LET r == into(funcs, fn) IN
        /\ funcs' = r.funcs
        /\ last' = [NoCall EXCEPT !.op = "into", !.fn = fn, !.err = r.err,
                                  !.ret = IF r.err = "none" THEN Self ELSE NoResult]
        /\ UNCHANGED <<mappings, cmp, wrappers, hist>>

Execute ==
    \E args \in ArgLists :
        LET r == execute(mappings, funcs, args) IN
        /\ last' = [NoCall EXCEPT !.op = "execute", !.args = args, !.err = r.err,
                                  !.ret = r.ret, !.param = r.param,
                                  !.applied = r.applied,
                                  !.called = r.called]
        /\ UNCHANGED <<mappings, funcs, cmp, wrappers, hist>>

Next == Map \/ Into \/ Execute

Spec == Init /\ [][Next]_vars

-----------------------------------------------------------------------------
(* The comparators on their own: the inputs are drawn initially and one    *)
(* step applies the comparator to them.                                    *)

InitCmp ==
    /\ mappings = <<>>
    /\ funcs = <<>>
    /\ wrappers = <<>>
    /\ hist = NoHist
    /\ last = NoCall
    /\ \/ \E a \in Specifiers, b \in Specifiers :
             cmp = [NoCmp EXCEPT !.kind = "compare_type", !.left = a, !.right = b]
       \/ \E a \in DocSpecifiers, b \in DocSpecifiers :
             cmp = [NoCmp EXCEPT !.kind = "compare_type", !.left = a, !.right = b]
       \/ \E p \in CmpPatterns, q \in CmpPatterns :
             cmp = [NoCmp EXCEPT !.kind = "compare_type_array", !.lefts = p, !.rights = q]

CompareType ==
    /\ cmp.kind = "compare_type"
    /\ ~cmp.done
    /\ cmp' = [cmp EXCEPT !.done = TRUE, !.result = compare_type(cmp.left, cmp.right)]
    /\ UNCHANGED <<mappings, funcs, last, wrappers, hist>>

CompareTypeArray ==
    /\ cmp.kind = "compare_type_array"
    /\ ~cmp.done
    /\ cmp' = [cmp EXCEPT !.done = TRUE,
                          !.result = compare_type_array(cmp.lefts, cmp.rights)]
    /\ UNCHANGED <<mappings, funcs, last, wrappers, hist>>

NextCmp == CompareType \/ CompareTypeArray

SpecCmp == InitCmp /\ [][NextCmp]_vars

-----------------------------------------------------------------------------
(* reflect on its own: an argument array is drawn initially and one step   *)
(* reflects each of its values, as match does.                             *)

InitReflect ==
    /\ mappings = <<>>
    /\ funcs = <<>>
    /\ wrappers = <<>>
    /\ hist = NoHist
    /\ last = NoCall
    /\ \E args \in ReflectLists :
          cmp = [NoCmp EXCEPT !.kind = "reflect", !.args = args]

Reflect ==
    /\ cmp.kind = "reflect"
    /\ ~cmp.done
    /\ cmp' = [cmp EXCEPT !.done = TRUE,
                          !.types = [k \in DOMAIN cmp.args |-> reflect(cmp.args[k])]]
    /\ UNCHANGED <<mappings, funcs, last, wrappers, hist>>

NextReflect == Reflect

SpecReflect == InitReflect /\ [][NextReflect]_vars

-----------------------------------------------------------------------------
(* Registration, into and calls in any order, for the signature whose      *)
(* into keeps the implementation and returns the signature itself, and for *)
(* the signature of signature.js, whose into(fn) returns a new function    *)
(* wrapping fn. The reflect, compare_type, compare_type_array and match of *)
(* signature.js are the same code as above, over the same mappings array.  *)

ErrJsAmbiguous == "ambiguous mapping detected between "
ErrJsInvalid   == "invalid argument."

\* map(types, fn) of signature.js; the message goes on to name both patterns
js_map(ms, types, fn) ==
    LET f == IF fn = fnUndefined THEN fnDefault ELSE fn IN
    IF \E i \in DOMAIN ms : compare_type_array(ms[i].types, types)
    THEN [mappings |-> ms, err |-> ErrJsAmbiguous]
    ELSE [mappings |-> Append(ms, [types |-> types, fn |-> f]), err |-> "none"]

\* into(fn) of signature.js: the function returned. It closes over fn and
\* over the mappings array itself; made is the number of mappings there
\* were when it was created, which its code never reads.
js_into(ms, fn) == [fn |-> fn, made |-> Len(ms)]

\* a wrapper matching against the mappings there were when it was created
js_call_snapshot(ms, w, args) ==
    LET m == match(SubSeq(ms, 1, w.made), args) IN
    IF m.param = undefined
    THEN [err |-> ErrJsInvalid, ret |-> NoResult, param |-> m.param,
          applied |-> m.applied, called |-> <<>>]
    ELSE LET a == applyArgs(m.param) IN
         IF a.err # "none"
         THEN [err |-> a.err, ret |-> NoResult, param |-> m.param,
               applied |-> m.applied, called |-> <<>>]
         ELSE [err |-> "none", ret |-> callImpl(w.fn, a.args), param |-> m.param,
               applied |-> m.applied, called |-> <<[fn |-> w.fn, args |-> a.args]>>]

\* a call of the function into(fn) returned
js_call(ms, w, args) ==
    LET m == match(ms, args) IN
    IF m.param = undefined
    THEN [err |-> ErrJsInvalid, ret |-> NoResult, param |-> m.param,
          applied |-> m.applied, called |-> <<>>]
    ELSE LET a == applyArgs(m.param) IN
         IF a.err # "none"
         THEN [err |-> a.err, ret |-> NoResult, param |-> m.param,
               applied |-> m.applied, called |-> <<>>]
         ELSE [err |-> "none", ret |-> callImpl(w.fn, a.args), param |-> m.param,
               applied |-> m.applied, called |-> <<[fn |-> w.fn, args |-> a.args]>>]

\* the map calls and the argument lists of the interleavings
OrderMapCalls == { MapCall(<<sString>>, fnUndefined),
                   MapCall(<<sNumber>>, fnNoReturn),
                   MapCall(<<sAny>>, fnNothing) }
OrderArgLists == SeqsUpTo(ArgValues, 1)

\* the entry a successful map call registers
Registered(h, types, fn, err) ==
    IF err = "none"
    THEN [h EXCEPT !.regs = Append(h.regs,
             [types |-> types, fn |-> IF fn = fnUndefined THEN fnDefault ELSE fn])]
    ELSE h

InitOrder ==
    /\ mappings = <<>>
    /\ funcs = <<>>
    /\ wrappers = <<>>
    /\ last = NoCall
    /\ cmp = NoCmp
    /\ \E v \in {"self", "wrapper"} : hist = [NoHist EXCEPT !.variant = v]

OrderMap ==
    /\ hist.variant = "self"
    /\ \E c \in OrderMapCalls :
          LET r == map(mappings, c.types, c.fn) IN
          /\ Len(r.mappings) <= MaxMappings
          /\ mappings' = r.mappings
          /\ last' = [NoCall EXCEPT !.op = "map", !.types = c.types, !.fn = c.fn,
                                    !.err = r.err,
                                    !.ret = IF r.err = "none" THEN Self ELSE NoResult]
          /\ hist' = Registered(hist, c.types, c.fn, r.err)
          /\ UNCHANGED <<funcs, cmp, wrappers>>

OrderInto ==
    /\ hist.variant = "self"
    /\ \E fn \in Impls :
          LET r == into(funcs, fn) IN
          /\ funcs' = r.funcs
          /\ last' = [NoCall EXCEPT !.op = "into", !.fn = fn, !.err = r.err,
                                    !.ret = IF r.err = "none" THEN Self ELSE NoResult]
          /\ hist' = IF r.err = "none" /\ hist.boundAt = {}
                     THEN [hist EXCEPT !.boundAt = {Len(mappings)}] ELSE hist
          /\ UNCHANGED <<mappings, cmp, wrappers>>

OrderExecute ==
    /\ hist.variant = "self"
    /\ \E args \in OrderArgLists :
          LET r == execute(mappings, funcs, args) IN
          /\ last' = [NoCall EXCEPT !.op = "execute", !.args = args, !.err = r.err,
                                    !.ret = r.ret, !.param = r.param,
                                    !.applied = r.applied,
                                    !.called = r.called]
          /\ hist' = IF r.err = ErrInvalid /\ hist.failedAt = {}
                     THEN [hist EXCEPT !.failedAt = {Len(mappings)}] ELSE hist
          /\ UNCHANGED <<mappings, funcs, cmp, wrappers>>

JsMap ==
    /\ hist.variant = "wrapper"
    /\ \E c \in OrderMapCalls :
          LET r == js_map(mappings, c.types, c.fn) IN
          /\ Len(r.mappings) <= MaxMappings
          /\ mappings' = r.mappings
          /\ last' = [NoCall EXCEPT !.op = "map", !.types = c.types, !.fn = c.fn,
                                    !.err = r.err,
                                    !.ret = IF r.err = "none" THEN Self ELSE NoResult]
          /\ hist' = Registered(hist, c.types, c.fn, r.err)
          /\ UNCHANGED <<funcs, cmp, wrappers>>

JsInto ==
    /\ hist.variant = "wrapper"
    /\ Len(wrappers) < MaxWrappers
    /\ \E fn \in Impls :
          /\ wrappers' = Append(wrappers, js_into(mappings, fn))
          /\ last' = [NoCall EXCEPT !.op = "into", !.fn = fn,
                                    !.ret = [by |-> "wrapper", args |-> <<>>],
                                    !.via = Len(wrappers) + 1]
          /\ hist' = IF hist.boundAt = {}
                     THEN [hist EXCEPT !.boundAt = {Len(mappings)}] ELSE hist
          /\ UNCHANGED <<mappings, funcs, cmp>>

JsCall ==
    /\ hist.variant = "wrapper"
    /\ \E w \in DOMAIN wrappers, args \in OrderArgLists :
          LET r == js_call(mappings, wrappers[w], args) IN
          /\ last' = [NoCall EXCEPT !.op = "call", !.args = args, !.err = r.err,
                                    !.ret = r.ret, !.param = r.param,
                                    !.applied = r.applied,
                                    !.called = r.called, !.via = w]
          /\ hist' = IF r.err = ErrJsInvalid /\ hist.failedAt = {}
                     THEN [hist EXCEPT !.failedAt = {Len(mappings)}] ELSE hist
          /\ UNCHANGED <<mappings, funcs, cmp, wrappers>>

NextOrder == OrderMap \/ OrderInto \/ OrderExecute \/ JsMap \/ JsInto \/ JsCall

SpecOrder == InitOrder /\ [][NextOrder]_vars

-----------------------------------------------------------------------------
(* The one-shot function signature(args, mappings), which takes the        *)
(* mappings with the call. Its reflect has no test for undefined or null,  *)
(* and its patterns hold plain type names compared with ===.               *)

ErrOneShotAmbiguous == "signature: ambiguous arguments."
ErrOneShotNone      == "signature: no overload found for given arguments."

\* reflect(obj) of the one-shot function
reflect_oneshot(obj) ==
    IF obj.typeof = "function" THEN "function"
    ELSE IF obj.typeof = "string" THEN "string"
    ELSE IF obj.typeof = "number" THEN "number"
    ELSE IF obj.typeof = "boolean" THEN "boolean"
    ELSE IF obj.typeof = "object" /\ "Array" \in obj.chain THEN "array"
    ELSE IF obj.typeof = "object" /\ "Date" \in obj.chain THEN "date"
    ELSE "object"

\* match(args, mapping) of the one-shot function
match_oneshot(args, mapping) ==
    IF Len(args) # Len(mapping.pattern) THEN FALSE
    ELSE \A index \in DOMAIN mapping.pattern :
            reflect_oneshot(args[index]) = mapping.pattern[index]

\* mapping.map(args): the value a map function returns, opaque, determined
\* by the function and the arguments array it was given
callMap(mapping, args) == [by |-> mapping.map, args |-> args]

\* the one-shot function taking the first of several matches
signature_oneshot_first(args, ms) ==
    LET matches == SelectSeq(ms, LAMBDA mapping : match_oneshot(args, mapping)) IN
    IF Len(matches) >= 1
    THEN [err |-> "none", out |-> callMap(matches[1], args),
          applied |-> <<[fn |-> matches[1].map, args |-> args]>>]
    ELSE [err |-> ErrOneShotNone, out |-> NoResult, applied |-> <<>>]

\* signature(args, mappings)
signature_oneshot(args, ms) ==
    LET matches == SelectSeq(ms, LAMBDA mapping : match_oneshot(args, mapping)) IN
    IF Len(matches) = 1
    THEN [err |-> "none", out |-> callMap(matches[1], args),
          applied |-> <<[fn |-> matches[1].map, args |-> args]>>]
    ELSE IF Len(matches) > 1
    THEN [err |-> ErrOneShotAmbiguous, out |-> NoResult, applied |-> <<>>]
    ELSE [err |-> ErrOneShotNone, out |-> NoResult, applied |-> <<>>]

\* the patterns, the mappings arrays and the arguments drawn: the i-th
\* mapping of an array carries its own map function
OneShotPatterns == SeqsUpTo({"string", "object"}, MaxArity)
OneShotMappings ==
    { [i \in DOMAIN ps |-> [pattern |-> ps[i], map |-> ToString(i)]] :
        ps \in SeqsUpTo(OneShotPatterns, MaxMappings) }

InitOneShot ==
    /\ mappings = <<>>
    /\ funcs = <<>>
    /\ wrappers = <<>>
    /\ hist = NoHist
    /\ last = NoCall
    /\ \E args \in ArgLists, ms \in OneShotMappings :
          cmp = [NoCmp EXCEPT !.kind = "signature", !.args = args, !.maps = ms]

OneShot ==
    /\ cmp.kind = "signature"
    /\ ~cmp.done
    /\ LET r == signature_oneshot(cmp.args, cmp.maps) IN
       cmp' = [cmp EXCEPT !.done = TRUE, !.err = r.err, !.out = r.out,
                          !.applied = r.applied]
    /\ UNCHANGED <<mappings, funcs, last, wrappers, hist>>

NextOneShot == OneShot

SpecOneShot == InitOneShot /\ [][NextOneShot]_vars

-----------------------------------------------------------------------------
(* The vocabulary of the properties, stated without the code's helpers.    *)

\* the tag set of a specifier: the pieces between separators (or the ends),
\* without the blanks around them, the empty ones left out
IsTagAt(s, i, j) ==
    /\ i <= j
    /\ s[i] \notin {"|", " "}
    /\ s[j] \notin {"|", " "}
    /\ \A k \in i..j : s[k] # "|"
    /\ \E b \in 0..(i - 1) :
          /\ (b = 0 \/ s[b] = "|")
          /\ \A k \in (b + 1)..(i - 1) : s[k] = " "
    /\ \E e \in (j + 1)..(Len(s) + 1) :
          /\ (e = Len(s) + 1 \/ s[e] = "|")
          /\ \A k \in (j + 1)..(e - 1) : s[k] = " "

Tags(s) ==
    { SubSeq(s, x[1], x[2]) :
        x \in { y \in (1..Len(s)) \X (1..Len(s)) : IsTagAt(s, y[1], y[2]) } }

TypesMatch(a, b) ==
    LET ta == Tags(a)
        tb == Tags(b)
    IN \/ Str("any") \in ta
       \/ Str("any") \in tb
       \/ ta \cap tb # {}

PatternsMatch(p, q) ==
    /\ Len(p) = Len(q)
    /\ \A i \in 1..Len(p) : TypesMatch(p[i], q[i])

\* the concrete tag sequences of the lengths the registered patterns have
TagSeqs ==
    UNION { [1..k -> {Str(t) : t \in TypeIds}] : k \in {Len(c.types) : c \in MapCalls} }

\* the classified arguments of a call
Classified(args) == [k \in DOMAIN args |-> Str(reflect(args[k]))]

\* the mappings whose pattern matches the classified arguments
Matching(ms, args) ==
    { i \in DOMAIN ms : PatternsMatch(Classified(args), ms[i].types) }

-----------------------------------------------------------------------------
(* Properties of registration.                                             *)

\* C1: in every reachable table, whatever map calls succeeded or failed, at
\* most one registered pattern matches any concrete tag sequence, unions and
\* the wildcard any included.
AtMostOneEntryMatches ==
    \A i \in DOMAIN mappings : \A j \in DOMAIN mappings :
        i < j =>
            \A t \in TagSeqs :
                ~(PatternsMatch(mappings[i].types, t) /\ PatternsMatch(mappings[j].types, t))

\* a table holding a union and a second pattern, after a rejected map
AtMostOneEntryMatchesWitness ==
    /\ Len(mappings) = 2
    /\ \E i \in DOMAIN mappings : mappings[i].types = <<sStringOrNumber>>
    /\ last.op = "map"
    /\ last.err = ErrAmbiguous
    /\ last.types = <<sAny>>

\* C2: map throws the ambiguity error exactly when some mapping already
\* registered has a pattern matching the new one; ["string"] then ["any"]
\* is rejected; a pattern differing from every registered one in length or
\* in a position with disjoint tag sets and no any is accepted.
Differs(q, p) ==
    \/ Len(q) # Len(p)
    \/ \E k \in 1..Len(p) :
          /\ Str("any") \notin Tags(q[k]) \cup Tags(p[k])
          /\ Tags(q[k]) \cap Tags(p[k]) = {}

MapRejectsExactlyAmbiguous ==
    [][ last'.op = "map" =>
          /\ last'.err \in {"none", ErrAmbiguous}
          /\ (last'.err = ErrAmbiguous) <=>
                (\E i \in DOMAIN mappings : PatternsMatch(mappings[i].types, last'.types))
          /\ ((\E i \in DOMAIN mappings : mappings[i].types = <<sString>>)
                /\ last'.types = <<sAny>>) => last'.err = ErrAmbiguous
          /\ (\A i \in DOMAIN mappings : Differs(mappings[i].types, last'.types))
                => (last'.err = "none" /\ mappings' = Append(mappings,
                        [types |-> last'.types,
                         fn |-> IF last'.fn = fnUndefined THEN fnDefault ELSE last'.fn]))
      ]_vars

\* ["any"] was rejected after ["string"] was registered
MapRejectsExactlyAmbiguousWitness ==
    /\ last.op = "map"
    /\ last.types = <<sAny>>
    /\ last.err = ErrAmbiguous
    /\ \E i \in DOMAIN mappings : mappings[i].types = <<sString>>

\* C3: a map call that throws the ambiguity error leaves the mappings (the
\* patterns, the mapping functions and their order) and the implementation
\* as they were; execute reads nothing else, so every later call of the
\* signature behaves as before the rejected map.
FailedMapChangesNothing ==
    [][ (last'.op = "map" /\ last'.err = ErrAmbiguous) =>
          /\ mappings' = mappings
          /\ funcs' = funcs
      ]_vars

\* a map call was rejected on a table with a mapping and an implementation
FailedMapChangesNothingWitness ==
    /\ last.op = "map"
    /\ last.err = ErrAmbiguous
    /\ Len(mappings) >= 1
    /\ Len(funcs) = 1

-----------------------------------------------------------------------------
(* Properties of invocation and binding.                                   *)

\* the lowest index of a nonempty set of indices
Lowest(M) == CHOOSE i \in M : \A j \in M : i <= j

\* C4: whenever the classified arguments match a registered pattern and an
\* implementation is bound, execute does not throw: it applies the matched
\* mapping function to the raw arguments, calls the implementation with the
\* output as its argument list, and returns the implementation's result,
\* whatever value the mapping function produced.
ExecuteSucceedsOnMatch ==
    (last.op = "execute" /\ Len(funcs) > 0 /\ Matching(mappings, last.args) # {}) =>
        LET i == Lowest(Matching(mappings, last.args))
            out == applyFn(mappings[i].fn, last.args)
        IN /\ last.err = "none"
           /\ last.applied = <<[index |-> i, fn |-> mappings[i].fn, args |-> last.args]>>
           /\ last.called = <<[fn |-> funcs[1], args |-> out.elems]>>
           /\ last.ret = callImpl(funcs[1], out.elems)

\* C5: when no registered pattern matches the classified arguments (no
\* pattern of the call's length, no mapping at all, or a tag mismatch),
\* execute throws the invalid argument error, applies no mapping function
\* and does not call the implementation.
NoMatchIsInvalidArgument ==
    (last.op = "execute" /\ Matching(mappings, last.args) = {}) =>
        /\ last.err = ErrInvalid
        /\ last.applied = <<>>
        /\ last.called = <<>>
        /\ last.ret = NoResult

\* a call of a bound signature whose arguments have the length of a
\* registered pattern and the tags of none, and one of no registered length
NoMatchIsInvalidArgumentWitness ==
    /\ last.op = "execute"
    /\ Len(funcs) = 1
    /\ Len(mappings) = 2
    /\ Matching(mappings, last.args) = {}
    /\ \E i \in DOMAIN mappings : Len(mappings[i].types) = Len(last.args)
    /\ last.err = ErrInvalid

\* C6 as stated: every call of a signature without an implementation throws
\* "this signature has no implementation.", whatever the arguments and the
\* registered patterns.
UnboundAlwaysNoImplementation ==
    (last.op = "execute" /\ funcs = <<>>) => last.err = ErrNoImpl

\* C6 amended: every call of a signature without an implementation throws
\* and calls nothing: "this signature has no implementation." when a
\* registered pattern matches and its mapping function returned a value
\* other than undefined, the invalid argument error otherwise.
UnboundExecuteThrows ==
    (last.op = "execute" /\ funcs = <<>>) =>
        /\ last.called = <<>>
        /\ last.ret = NoResult
        /\ last.err =
              IF \E i \in Matching(mappings, last.args) :
                     applyFn(mappings[i].fn, last.args) # undefined
              THEN ErrNoImpl
              ELSE ErrInvalid

\* a matching call of a signature with mappings and no implementation
UnboundExecuteThrowsWitness ==
    /\ last.op = "execute"
    /\ funcs = <<>>
    /\ Matching(mappings, last.args) # {}
    /\ last.err = ErrNoImpl

\* C7: the signature holds at most one implementation; the first into
\* succeeds, every later one throws and leaves the first in place, and
\* every call of the signature calls the implementation in place.
SingleImplementation ==
    /\ [](Len(funcs) <= 1)
    /\ [][ /\ last'.op = "into" =>
                IF funcs = <<>>
                THEN last'.err = "none" /\ funcs' = <<last'.fn>>
                ELSE last'.err = ErrSingle /\ funcs' = funcs
           /\ funcs # <<>> => funcs' = funcs
           /\ last'.op = "execute" =>
                \A k \in DOMAIN last'.called : last'.called[k].fn = funcs[1]
         ]_vars

\* a second into was refused, and the signature was called afterwards
SingleImplementationWitness ==
    /\ last.op = "into"
    /\ last.err = ErrSingle
    /\ last.fn = "F2"
    /\ funcs = <<"F1">>

\* C8: match scans the mappings in registration order and hands back the
\* output of the mapping function of the lowest-index matching mapping; that
\* function is applied once, to the raw arguments, and no other is applied.
FirstMatchApplied ==
    last.op = "execute" =>
        LET M == Matching(mappings, last.args) IN
        IF M = {}
        THEN last.applied = <<>> /\ last.param = undefined
        ELSE LET i == Lowest(M) IN
             /\ last.applied = <<[index |-> i, fn |-> mappings[i].fn, args |-> last.args]>>
             /\ last.param = applyFn(mappings[i].fn, last.args)

\* a call matched by the second of two mappings with different functions
FirstMatchAppliedWitness ==
    /\ last.op = "execute"
    /\ Len(mappings) = 2
    /\ Matching(mappings, last.args) = {2}
    /\ mappings[1].fn # mappings[2].fn
    /\ Len(last.applied) = 1

-----------------------------------------------------------------------------
(* Properties of the comparators.                                          *)

\* C9: compare_type gives the same answer with its arguments exchanged, and
\* so does compare_type_array; map rejects p after q exactly when it
\* rejects q after p.
ComparatorsSymmetric ==
    cmp.done =>
        /\ cmp.kind = "compare_type" =>
              cmp.result = compare_type(cmp.right, cmp.left)
        /\ cmp.kind = "compare_type_array" =>
              /\ cmp.result = compare_type_array(cmp.rights, cmp.lefts)
              /\ map(<<[types |-> cmp.lefts, fn |-> fnDefault]>>, cmp.rights, fnUndefined).err
                    = map(<<[types |-> cmp.rights, fn |-> fnDefault]>>, cmp.lefts, fnUndefined).err

\* any was compared with a union on its right
ComparatorsSymmetricWitness ==
    /\ cmp.done
    /\ cmp.kind = "compare_type"
    /\ cmp.left = sStringOrNumber
    /\ cmp.right = sAny
    /\ cmp.result

\* C10: compare_type is true when either tag set holds any, and otherwise
\* exactly when the two tag sets share a tag; so a union accepts a tag iff
\* the tag is one of its members, "null|undefined" accepts null and
\* undefined, "null" and "undefined" do not accept each other, and any
\* accepts every tag.
TypesMatchIsOverlap ==
    (cmp.done /\ cmp.kind = "compare_type") =>
          /\ cmp.result = TypesMatch(cmp.left, cmp.right)
          /\ cmp.right \in {sString, sNumber} =>
                (cmp.result <=> (Tags(cmp.left) \cap {sAny, cmp.right} # {}))
          /\ (cmp.left = sNullOrUndefined /\ cmp.right \in {sNull, Str("undefined")})
                => cmp.result
          /\ (cmp.left = sNull /\ cmp.right = Str("undefined")) => ~cmp.result
          /\ (cmp.left = Str("undefined") /\ cmp.right = sNull) => ~cmp.result
          /\ (cmp.left = sAny /\ cmp.right \in {Str(t) : t \in TypeIds}) => cmp.result

\* the opt-in union was compared with one of its members
TypesMatchIsOverlapWitness ==
    /\ cmp.done
    /\ cmp.kind = "compare_type"
    /\ cmp.left = sNullOrUndefined
    /\ cmp.right = Str("undefined")
    /\ cmp.result

-----------------------------------------------------------------------------
(* Properties of reflect.                                                  *)

\* C11: reflect gives every value exactly one of the nine type ids, never
\* any; its tests run in the order undefined, null, function, string,
\* number, boolean, then array before date before object, so a value that
\* is an instance of Array or Date, null and undefined are never "object".
IsInstance(v, c) == v.typeof = "object" /\ v # null /\ c \in v.chain

ReflectTotalAndOrdered ==
    (cmp.done /\ cmp.kind = "reflect") =>
        /\ DOMAIN cmp.types = DOMAIN cmp.args
        /\ \A k \in DOMAIN cmp.args :
              LET v == cmp.args[k]
                  t == cmp.types[k]
                  prim == v.typeof \in {"function", "string", "number", "boolean"}
              IN /\ t \in TypeIds
                 /\ t # "any"
                 /\ (t = "undefined") <=> (v = undefined)
                 /\ (t = "null") <=> (v = null)
                 /\ (v \notin {undefined, null} /\ prim) => t = v.typeof
                 /\ IsInstance(v, "Array") => t = "array"
                 /\ (IsInstance(v, "Date") /\ ~IsInstance(v, "Array")) => t = "date"
                 /\ (t = "object") =>
                       (v \notin {undefined, null}
                          /\ ~IsInstance(v, "Array") /\ ~IsInstance(v, "Date"))

\* null and a value that is both an Array and a Date were reflected
ReflectTotalAndOrderedWitness ==
    /\ cmp.done
    /\ cmp.kind = "reflect"
    /\ cmp.args = <<null, vArrayDate>>
    /\ cmp.types = <<"null", "array">>

-----------------------------------------------------------------------------
(* Properties of the default mapping function and of the arrays.           *)

\* C12: map called without a mapping function registers the identity: every
\* call matching that mapping hands the implementation exactly the raw
\* arguments, in the same order and number.
DefaultMappingIsIdentity ==
    /\ [][ (last'.op = "map" /\ last'.fn = fnUndefined /\ last'.err = "none") =>
              mappings' = Append(mappings, [types |-> last'.types, fn |-> fnDefault])
         ]_vars
    /\ [](  (/\ last.op = "execute"
             /\ Matching(mappings, last.args) # {}
             /\ mappings[Lowest(Matching(mappings, last.args))].fn = fnDefault)
            => /\ last.param = JsArray(last.args)
               /\ funcs # <<>> =>
                     /\ last.err = "none"
                     /\ last.called = <<[fn |-> funcs[1], args |-> last.args]>>
                     /\ last.ret = callImpl(funcs[1], last.args) )

\* the readme's method("hello", "world"), matched by map(["string", "string"])
DefaultMappingIsIdentityWitness ==
    /\ last.op = "execute"
    /\ last.args = <<vString, vString>>
    /\ \E i \in DOMAIN mappings :
          mappings[i] = [types |-> <<sString, sString>>, fn |-> fnDefault]
    /\ funcs # <<>>
    /\ last.err = "none"
    /\ last.ret = callImpl(funcs[1], <<vString, vString>>)

\* C13: the mappings array only grows at its end: no call removes, moves
\* or changes a mapping; a map call that returns appends exactly one; into
\* and execute, returning or throwing, leave the array as it was, and
\* execute leaves the implementation as it was too.
MappingsAppendOnly ==
    [][ /\ Len(mappings) <= Len(mappings')
        /\ Len(mappings') <= Len(mappings) + 1
        /\ SubSeq(mappings', 1, Len(mappings)) = mappings
        /\ (last'.op = "map" /\ last'.err = "none") =>
              mappings' = Append(mappings,
                  [types |-> last'.types,
                   fn |-> IF last'.fn = fnUndefined THEN fnDefault ELSE last'.fn])
        /\ last'.op \in {"into", "execute"} => mappings' = mappings
        /\ last'.op = "execute" => funcs' = funcs
      ]_vars

\* a second mapping was appended to a signature that has an implementation
MappingsAppendOnlyWitness ==
    /\ last.op = "map"
    /\ last.err = "none"
    /\ Len(mappings) = 2
    /\ mappings[2].types = last.types
    /\ funcs # <<>>

-----------------------------------------------------------------------------
(* Properties of the one-shot function.                                    *)

\* C14: signature(args, mappings) matches a mapping when the lengths are
\* equal and every argument's tag equals the pattern's; it returns the map
\* result of the matching mapping iff exactly one matches, throws the
\* ambiguous arguments error when several match (the first is not taken),
\* the no overload error when none does, and applies no map function when
\* it throws.
OneShotMatches(args, ms) ==
    { i \in DOMAIN ms :
        /\ Len(ms[i].pattern) = Len(args)
        /\ \A k \in 1..Len(args) : ms[i].pattern[k] = reflect_oneshot(args[k]) }

OneShotNeedsOneMatch ==
    (cmp.done /\ cmp.kind = "signature") =>
        LET M == OneShotMatches(cmp.args, cmp.maps) IN
        /\ (cmp.err = "none") <=> (Cardinality(M) = 1)
        /\ Cardinality(M) = 1 =>
              LET i == Lowest(M) IN
              /\ cmp.out = [by |-> cmp.maps[i].map, args |-> cmp.args]
              /\ cmp.applied = <<[fn |-> cmp.maps[i].map, args |-> cmp.args]>>
        /\ Cardinality(M) > 1 =>
              cmp.err = ErrOneShotAmbiguous /\ cmp.applied = <<>> /\ cmp.out = NoResult
        /\ Cardinality(M) = 0 =>
              cmp.err = ErrOneShotNone /\ cmp.applied = <<>> /\ cmp.out = NoResult

\* two mappings with the pattern of the call: the call was refused
OneShotNeedsOneMatchWitness ==
    /\ cmp.done
    /\ cmp.kind = "signature"
    /\ cmp.args = <<vString, null>>
    /\ Cardinality(OneShotMatches(cmp.args, cmp.maps)) = 2
    /\ cmp.err = ErrOneShotAmbiguous

-----------------------------------------------------------------------------
(* Properties of the order of registration, into and calls.                *)

\* C15: map, into and calls may come in any order. into succeeds before
\* any map; a map call is accepted or refused by the patterns registered
\* alone, whatever into and failed calls came before; and every call is
\* matched against exactly the mappings registered up to that call, in the
\* order of registration: a pattern registered after into, or after a call
\* that found no mapping, is found by every later call, also by a call of a
\* function that into() of signature.js returned before the registration.
CallsSeeAllRegistered ==
    /\ [](mappings = hist.regs)
    /\ [](last.op \in {"execute", "call"} =>
            LET M == Matching(hist.regs, last.args)
                bound == IF last.op = "call" THEN TRUE ELSE funcs # <<>>
                impl == IF last.op = "call" THEN wrappers[last.via].fn ELSE funcs[1]
            IN
            /\ M = {} =>
                  /\ last.applied = <<>>
                  /\ last.err = IF last.op = "call" THEN ErrJsInvalid ELSE ErrInvalid
            /\ M # {} =>
                  LET i == Lowest(M) IN
                  /\ last.applied =
                        <<[index |-> i, fn |-> hist.regs[i].fn, args |-> last.args]>>
                  /\ (hist.regs[i].fn = fnDefault /\ bound) =>
                        /\ last.err = "none"
                        /\ last.called = <<[fn |-> impl, args |-> last.args]>>
                        /\ last.ret = [by |-> impl, args |-> last.args])
    /\ [][ /\ (last'.op = "into" /\ (hist.variant = "wrapper" \/ funcs = <<>>)) =>
                last'.err = "none"
           /\ last'.op = "map" =>
                ((last'.err = "none") <=>
                    (\A i \in DOMAIN hist.regs :
                        ~PatternsMatch(hist.regs[i].types, last'.types)))
         ]_vars

\* a function returned by into() before any map, called once with no
\* mapping for a string and then, after ["string"] was registered, called
\* again: the call reached the implementation
CallsSeeAllRegisteredWitness ==
    /\ last.op = "call"
    /\ last.err = "none"
    /\ last.args = <<vString>>
    /\ wrappers[last.via].made = 0
    /\ hist.boundAt = {0}
    /\ \E n \in hist.failedAt : n < Lowest(Matching(mappings, last.args))
    /\ last.called = <<[fn |-> wrappers[last.via].fn, args |-> last.args]>>

\* the same for the signature that is called itself: into before any map,
\* a failed call, then the registration and a call that succeeds
SelfSeesAllRegisteredWitness ==
    /\ last.op = "execute"
    /\ last.err = "none"
    /\ hist.boundAt = {0}
    /\ \E n \in hist.failedAt : n < Lowest(Matching(mappings, last.args))

-----------------------------------------------------------------------------
(* The order of the two tests of execute.                                  *)

\* C16: execute matches before it tests for an implementation: a call of a
\* signature without implementation whose arguments match a registered
\* pattern applies the matched mapping function and then throws "this
\* signature has no implementation."; one whose arguments match no pattern
\* throws the invalid argument error instead.
ResolvesBeforeImplementationTest ==
    (last.op = "execute" /\ funcs = <<>>) =>
        LET M == Matching(mappings, last.args) IN
        /\ M # {} =>
              /\ last.applied = <<[index |-> Lowest(M), fn |-> mappings[Lowest(M)].fn,
                                   args |-> last.args]>>
              /\ last.err = ErrNoImpl
        /\ M = {} =>
              /\ last.applied = <<>>
              /\ last.err = ErrInvalid

====
